---- MODULE Spec2Model ----
(***************************************************************************)
(* A model of usch.h: the pattern expansion engine (priv_usch_globexpand), *)
(* the pipeline executor (priv_usch_cmd_arr, priv_usch_run,                *)
(* priv_usch_command), the process reaper (priv_usch_waitforall), the      *)
(* capture entry point (priv_ustrout_impl), the stash (priv_usch_stash,    *)
(* uclear) and the functions that run no program: ustrexpv, ustrsplit,     *)
(* ustrneq and priv_usch_cached_whereis.                                   *)
(*                                                                         *)
(* A C string is a sequence of one-character strings; a NULL pointer slot  *)
(* of an argument vector is the value NULLP.  C indices are 0-based; the   *)
(* sequences of the model are 1-based, and Slot(v, c) reads C index c.     *)
(***************************************************************************)
EXTENDS Integers, Sequences, FiniteSets, TLC

(***************************************************************************)
(* Bounds of the model.                                                    *)
(***************************************************************************)
MaxStages == 3
MaxStops == 1
MaxBlocks == 4
MaxClears == 2
MaxLen == 3
MaxPathItems == 2
MaxReadErrors == 1

(***************************************************************************)
(* Strings and the tokens the caller passes.                               *)
(***************************************************************************)
NULLP == <<"NULL">>

\* The zero byte of a character buffer.
NUL == ""

CD == <<"c", "d">>
DD == <<"-", "-">>
PIPE == <<"|">>
A == <<"a">>
N == <<"n">>
D == <<"d">>
STAR == <<"*">>
DSLASH == <<"d", "/">>
HOME == <<"/", "h">>

\* The directories chdir(2) can enter: the value of HOME and the directory d.
Dirs == {HOME, D, DSLASH}

\* The programs execvp(3) can run; every other name makes execvp return -1.
Programs == {A}

(***************************************************************************)
(* glob(3) with GLOB_MARK | GLOB_NOCHECK | GLOB_TILDE | GLOB_NOMAGIC |     *)
(* GLOB_BRACE over a directory that holds the file a and the directory d:  *)
(* "*" matches both (sorted, the directory marked with a slash), a name    *)
(* that exists matches itself (marked when a directory), and a pattern     *)
(* that matches nothing is returned as it is.                              *)
(***************************************************************************)
\* glob without GLOB_NOCHECK: a pattern that matches nothing gives no path.
globNoCheck(pattern) ==
    IF pattern = STAR THEN <<A, DSLASH>>
    ELSE IF pattern = D THEN <<DSLASH>>
    ELSE IF pattern = A THEN <<A>>
    ELSE <<>>

glob(pattern) ==
    IF pattern = STAR THEN <<A, DSLASH>>
    ELSE IF pattern = D THEN <<DSLASH>>
    ELSE <<pattern>>

\* strcmp(p_a, p_b) == 0
strcmp0(p_a, p_b) == p_a = p_b

\* ustreq: 1 iff both strings are present and equal.
ustreq(p_a, p_b) ==
    IF p_a = NULLP \/ p_b = NULLP THEN FALSE ELSE strcmp0(p_a, p_b)

\* C index c of a vector.
Slot(v, c) == v[c + 1]

(***************************************************************************)
(* priv_usch_globexpand.                                                   *)
(***************************************************************************)
\* NumGlobbed without the break at "--" (lines 700-704 left out).
NumGlobbedNoBreak(pp_orig_argv) == Len(pp_orig_argv)

\* The number of loop iterations that reach the matcher: the loop at line
\* 698 breaks at the first "--".
NumGlobbed(pp_orig_argv) ==
    IF \E x \in 1..Len(pp_orig_argv) : strcmp0(pp_orig_argv[x], DD)
    THEN (CHOOSE x \in 1..Len(pp_orig_argv) :
             /\ strcmp0(pp_orig_argv[x], DD)
             /\ \A y \in 1..(x - 1) : ~strcmp0(pp_orig_argv[y], DD)) - 1
    ELSE Len(pp_orig_argv)

\* orig_arg_idx after the loop: one per matched argument, one more for "--".
OrigArgIdx(pp_orig_argv) ==
    IF NumGlobbed(pp_orig_argv) < Len(pp_orig_argv)
    THEN NumGlobbed(pp_orig_argv) + 1
    ELSE Len(pp_orig_argv)

\* The transient glob list: one node (its gl_pathv) per matched argument.
GlobNodes(pp_orig_argv) ==
    [x \in 1..NumGlobbed(pp_orig_argv) |-> glob(pp_orig_argv[x])]

RECURSIVE Flatten(_)
Flatten(nodes) ==
    IF nodes = <<>> THEN <<>>
    ELSE Flatten(SubSeq(nodes, 1, Len(nodes) - 1)) \o nodes[Len(nodes)]

\* num_glob_items: the sum of gl_pathc over the list.
NumGlobItems(pp_orig_argv) == Len(Flatten(GlobNodes(pp_orig_argv)))

\* The number of slots calloc'ed at line 727.
ExpandedSize(pp_orig_argv) ==
    NumGlobItems(pp_orig_argv) + Len(pp_orig_argv) - OrigArgIdx(pp_orig_argv) + 1

\* j when the copy loop at line 732 is left: gl_pathc of the last node (the
\* inner loop restarts j at 0 for every node), 0 when the list is empty.
TailBase(pp_orig_argv) ==
    LET nodes == GlobNodes(pp_orig_argv)
    IN IF nodes = <<>> THEN 0 ELSE Len(nodes[Len(nodes)])

\* The C index the loop at line 741 writes argument i (a C index) to.
TailDst(pp_orig_argv, i) == TailBase(pp_orig_argv) + i

\* The C indices of the arguments the loop at line 741 copies.
TailSrc(pp_orig_argv) == OrigArgIdx(pp_orig_argv)..(Len(pp_orig_argv) - 1)

\* The copies made by the loop at line 741: source index, destination
\* index and the pointer stored.
TailCopies(pp_orig_argv) ==
    {[src |-> i, dst |-> TailDst(pp_orig_argv, i), val |-> Slot(pp_orig_argv, i)] :
        i \in TailSrc(pp_orig_argv)}

\* The destinations of line 743 that lie outside the calloc'ed sequence.
OutOfBounds(pp_orig_argv) ==
    {w.dst : w \in {t \in TailCopies(pp_orig_argv) :
                       t.dst >= ExpandedSize(pp_orig_argv)}}

\* pp_expanded_argv as returned: calloc zeroes it, the loop at line 732
\* stores the matches from slot 0, the loop at line 741 stores the tail.
ExpandedArgv(pp_orig_argv) ==
    LET flat == Flatten(GlobNodes(pp_orig_argv))
        tail == TailCopies(pp_orig_argv)
    IN [s \in 1..ExpandedSize(pp_orig_argv) |->
          IF \E t \in tail : t.dst = s - 1
          THEN (CHOOSE t \in tail : t.dst = s - 1).val
          ELSE IF s <= Len(flat) THEN flat[s] ELSE NULLP]

\* A sequence read from slot 0 up to its first terminator.
RECURSIVE UpToTerminator(_)
UpToTerminator(v) ==
    IF v = <<>> \/ Head(v) = NULLP THEN <<>>
    ELSE <<Head(v)>> \o UpToTerminator(Tail(v))

(***************************************************************************)
(* File descriptors.  A descriptor table maps a descriptor number to the   *)
(* open file it names: the caller's terminal streams or one end of a pipe. *)
(***************************************************************************)
STDIN_FILENO == 0
STDOUT_FILENO == 1
USCH_FD_READ == 0
USCH_FD_WRITE == 1
EXIT_FAILURE == 1
MaxFd == 2 * MaxStages + 4

Closed == [k |-> "closed", n |-> 0]
Tty(fd) == [k |-> "tty", n |-> fd]
RdEnd(p) == [k |-> "r", n |-> p]
WrEnd(p) == [k |-> "w", n |-> p]

InitFds == [fd \in 0..MaxFd |-> IF fd <= 2 THEN Tty(fd) ELSE Closed]
NoFds == [fd \in 0..MaxFd |-> Closed]

LowestFree(t) ==
    CHOOSE fd \in 0..MaxFd : t[fd] = Closed /\ \A g \in 0..(fd - 1) : t[g] # Closed

\* pipe(2) in table t, making pipe number p: the two lowest free descriptors.
PipeFds(t) ==
    LET r == LowestFree(t)
        w == LowestFree([t EXCEPT ![r] = RdEnd(0)])
    IN <<r, w>>

PipeTable(t, p) ==
    [t EXCEPT ![PipeFds(t)[1]] = RdEnd(p), ![PipeFds(t)[2]] = WrEnd(p)]

\* close(2): closing a descriptor that is not open changes nothing.
close(t, fd) == IF fd \in 0..MaxFd THEN [t EXCEPT ![fd] = Closed] ELSE t

\* dup2(2): newfd names what oldfd names; EBADF leaves the table alone.
dup2(t, oldfd, newfd) ==
    IF oldfd \in 0..MaxFd /\ t[oldfd] # Closed
    THEN [t EXCEPT ![newfd] = t[oldfd]]
    ELSE t

(***************************************************************************)
(* priv_usch_command, the child after fork (lines 877-891): the wiring of  *)
(* the child's standard streams by the stage's classification.             *)
(***************************************************************************)
\* ChildFds whose last stage leaves its standard input alone.
ChildFdsNoInput(t, input, first, last, capture, pipettes) ==
    IF first = 1 /\ last = 0 /\ input = 0
    THEN dup2(t, pipettes[USCH_FD_WRITE + 1], STDOUT_FILENO)
    ELSE IF first = 0 /\ last = 0 /\ input # 0
    THEN dup2(dup2(t, input, STDIN_FILENO), pipettes[USCH_FD_WRITE + 1], STDOUT_FILENO)
    ELSE IF capture
    THEN dup2(t, pipettes[USCH_FD_WRITE + 1], STDOUT_FILENO)
    ELSE t

ChildFds(t, input, first, last, capture, pipettes) ==
    IF first = 1 /\ last = 0 /\ input = 0
    THEN dup2(t, pipettes[USCH_FD_WRITE + 1], STDOUT_FILENO)
    ELSE IF first = 0 /\ last = 0 /\ input # 0
    THEN dup2(dup2(t, input, STDIN_FILENO), pipettes[USCH_FD_WRITE + 1], STDOUT_FILENO)
    ELSE IF capture
    THEN dup2(t, pipettes[USCH_FD_WRITE + 1], STDOUT_FILENO)
    ELSE dup2(t, input, STDIN_FILENO)

\* execvp(pp_argv[0], pp_argv) replaces the image iff the program exists.
ExecOk(argv) == argv[1] \in Programs

(***************************************************************************)
(* Wait status words, as <sys/wait.h> encodes and decodes them.            *)
(***************************************************************************)
WExited(code) == (code % 256) * 256
WKilled(sig) == sig
WStoppedBy(sig) == sig * 256 + 127
WContinuedWord == 65535

WIFEXITED(w) == (w % 128) = 0
WEXITSTATUS(w) == (w \div 256) % 256
WIFSIGNALED(w) == (w % 128) # 0 /\ (w % 128) # 127
WIFSTOPPED(w) == (w % 256) = 127
WIFCONTINUED(w) == w = WContinuedWord

\* ChildStatus without the branches after WIFEXITED.
ChildStatusExitOnly(w) == WEXITSTATUS(w)

\* priv_usch_waitforall, lines 978-994: the status one wait result maps to.
ChildStatus(w) ==
    IF WIFEXITED(w) THEN WEXITSTATUS(w)
    ELSE IF WIFSIGNALED(w) THEN -1
    ELSE IF WIFSTOPPED(w) THEN -1
    ELSE IF WIFCONTINUED(w) THEN -1
    ELSE -1

\* WaitAgain for a loop that runs once.
WaitAgainNever(w) == FALSE

\* The loop condition of line 995: wait again.
WaitAgain(w) == ~WIFEXITED(w) /\ ~WIFSIGNALED(w)

(***************************************************************************)
(* priv_usch_cmd_arr helpers.                                              *)
(***************************************************************************)
FirstByte(s) == IF s = <<>> THEN "" ELSE s[1]

\* argc after the loop at line 789: the index of the terminator.
Argc(v) == Len(UpToTerminator(v))

\* RewritePipes that leaves the separators in place.
RewritePipesNone(v) == v

\* Lines 789-796: every slot whose first byte is '|' becomes a terminator.
RewritePipes(v) ==
    [s \in 1..Len(v) |->
        IF s <= Argc(v) /\ FirstByte(v[s]) = "|" THEN NULLP ELSE v[s]]

\* CdTarget that ignores the second token.
CdTargetHome(v) == HOME

\* Lines 798-803: the directory the builtin changes to.
CdTarget(v) == IF Slot(v, 1) = NULLP THEN HOME ELSE Slot(v, 1)

\* Line 798.
IsCd(v) == ustreq(Slot(v, 0), CD)

\* Lines 814-821: last is 1 unless a terminator lies in i..argc-1.
IsLast(v, i, argc) ==
    IF \E j \in i..(argc - 1) : Slot(v, j) = NULLP THEN 0 ELSE 1

\* Lines 825-832: skip the stage's slots, then one terminator.
RECURSIVE SkipRun(_, _, _)
SkipRun(v, i, argc) ==
    IF i < argc /\ Slot(v, i) # NULLP THEN SkipRun(v, i + 1, argc) ELSE i

NextStage(v, i, argc) ==
    LET e == SkipRun(v, i, argc)
    IN IF Slot(v, e) = NULLP /\ e # argc THEN e + 1 ELSE e

\* The argument vector execvp sees at &pp_argv[i]: up to the terminator.
StageArgv(v, i) == UpToTerminator(SubSeq(v, i + 1, Len(v)))

(***************************************************************************)
(* The inputs of a call: argument lists built from stages joined by "|".   *)
(***************************************************************************)
\* The first stage of an argument list, and the stages after a "|".
FirstStages ==
    {<<>>, <<A>>, <<N>>, <<A, STAR>>, <<CD>>, <<CD, D>>, <<A, DD, STAR>>}

LaterStages == {<<>>, <<A>>, <<N>>, <<A, DD, STAR>>}

RECURSIVE JoinStages(_)
JoinStages(segs) ==
    IF segs = <<>> THEN <<>>
    ELSE IF Len(segs) = 1 THEN segs[1]
    ELSE segs[1] \o <<PIPE>> \o JoinStages(Tail(segs))

ArgLists ==
    {<<>>} \cup
    UNION {{JoinStages(<<f>> \o segs) :
               f \in FirstStages, segs \in [1..n -> LaterStages]} :
           n \in 0..(MaxStages - 1)}

\* What a terminated child wrote to a captured standard output.
Outputs == {<<>>, <<"x">>, <<"x", "\n">>}

\* The values a program passes to exit(3), and the signals that kill it.
ExitArgs == {0, 258}
Signals == {9}

(***************************************************************************)
(* State.                                                                  *)
(***************************************************************************)
VARIABLES
    pc,            \* the position of the calling process
    entry,         \* the entry point called: ucmd, ustrout, ustrexpv
    p_ustash,      \* whether the stash handle passed is non-NULL
    pp_orig_argv,  \* the caller's argument list
    pp_argv,       \* the expanded sequence, <<>> when NULL
    p_glob_list,   \* the nodes of the list the caller of the expansion holds
    live_nodes,    \* glob list nodes allocated and not yet freed
    globbed,       \* the C indices of the arguments handed to glob(3)
    tail_copied,   \* the copies the tail loop made
    oob,           \* destinations written outside the expanded sequence
    argc, i, input, first, last, child_pid, status, pipettes,
    fdt,           \* the descriptor table of the calling process
    procs,         \* the forked children, in fork order (pid = index)
    npipes,        \* pipes created
    pipe_data,     \* bytes written to the captured pipe and not yet read
    cap_pipe,      \* the pipe the parent drains, 0 when none
    cap_str,       \* the bytes read so far by the drain loop
    read_size,     \* the size of the buffer the drain loop reads into
    stream,        \* every byte written to the captured pipe
    read_errors,   \* read(2) calls of the drain loop that returned -1
    p_out,         \* *pp_out: the block holding the capture, 0 when NULL
    blocks,        \* the contents of every stash item ever allocated
    heap,          \* the stash items allocated and not freed
    freed,         \* how often each stash item was passed to free(3)
    stash,         \* p_ustash->p_list, head first
    ret,           \* the value the entry point returned
    cwd, chdirs,   \* the working directory, and the chdir(2) calls made
    waits, joined, stops,   \* waitpid(2) calls, the pid reaped, stop reports
    join_calls,    \* the pids priv_usch_waitforall was called with
    clears,        \* consecutive uclear calls
    p_in, p_delims,     \* the arguments of ustrsplit
    p_a, p_b, len,      \* the arguments of ustrneq
    p_search_item, pp_cached_path,   \* the arguments of priv_usch_cached_whereis
    no_mem,        \* the allocation of priv_usch_cached_whereis that fails
    probed         \* the paths passed to stat(2)

vars ==
    <<pc, entry, p_ustash, pp_orig_argv, pp_argv, p_glob_list, live_nodes,
      globbed, tail_copied, oob, argc, i, input, first, last, child_pid,
      status, pipettes, fdt, procs, npipes, pipe_data, cap_pipe, cap_str,
      read_size, stream, read_errors,
      p_out, blocks, heap, freed, stash, ret, cwd, chdirs, waits, joined,
      stops, join_calls, clears, p_in, p_delims, p_a, p_b, len, p_search_item,
      pp_cached_path, no_mem, probed>>

\* The arguments and probes of the functions that run no program.
libVars ==
    <<p_in, p_delims, p_a, p_b, len, p_search_item, pp_cached_path, no_mem, probed>>

callVars == <<entry, p_ustash, pp_orig_argv, libVars>>
capVars == <<cap_str, read_size, stream, read_errors>>
expVars == <<pp_argv, p_glob_list, live_nodes, globbed, tail_copied, oob>>
loopVars == <<argc, i, input, first, last, child_pid, pipettes>>
procVars == <<fdt, procs, npipes, pipe_data, cap_pipe>>
memVars == <<blocks, heap, freed, stash, clears>>
dirVars == <<cwd, chdirs>>
waitVars == <<waits, joined, stops, join_calls>>

NoRet == [kind |-> "none", val |-> 0]

\* The state before any call, the arguments of the call left open.
InitCore ==
    /\ pc = "idle"
    /\ pp_orig_argv = <<>>
    /\ pp_argv = <<>>
    /\ p_glob_list = 0
    /\ live_nodes = 0
    /\ globbed = {}
    /\ tail_copied = {}
    /\ oob = {}
    /\ argc = 0 /\ i = 0 /\ input = 0 /\ first = 1 /\ last = 0
    /\ child_pid = 0 /\ status = 0
    /\ pipettes = <<0, 0>>
    /\ fdt = InitFds
    /\ procs = <<>>
    /\ npipes = 0
    /\ pipe_data = <<>>
    /\ cap_pipe = 0
    /\ cap_str = <<>>
    /\ read_size = 0
    /\ stream = <<>>
    /\ read_errors = 0
    /\ p_out = 0
    /\ blocks = <<>>
    /\ heap = {}
    /\ freed = <<>>
    /\ stash = <<>>
    /\ ret = NoRet
    /\ cwd = <<"/">>
    /\ chdirs = <<>>
    /\ waits = 0 /\ joined = 0 /\ stops = 0
    /\ join_calls = <<>>
    /\ clears = 0
    /\ probed = <<>>

\* No argument of ustrsplit, ustrneq or priv_usch_cached_whereis is set.
NoSplitArgs == p_in = NULLP /\ p_delims = NULLP
NoNeqArgs == p_a = NULLP /\ p_b = NULLP /\ len = 0
NoWhereisArgs == p_search_item = <<>> /\ pp_cached_path = <<>> /\ no_mem = "none"

Init ==
    /\ InitCore
    /\ entry = "none"
    /\ p_ustash = TRUE
    /\ NoSplitArgs /\ NoNeqArgs /\ NoWhereisArgs

(***************************************************************************)
(* The caller enters ucmd, ustrout or ustrexpv.  The variadic front ends   *)
(* (priv_ucmd_impl, priv_ustrout_impl lines 247-251) shift the argument    *)
(* array by one; the model starts from the shifted array.                  *)
(***************************************************************************)
Call(e, args, handle) ==
    /\ pc = "idle"
    /\ entry' = e
    /\ pp_orig_argv' = args
    /\ p_ustash' = handle
    /\ pc' = "expand"
    /\ UNCHANGED <<libVars, expVars, loopVars, status, procVars, capVars, p_out,
                   memVars, ret, dirVars, waitVars>>

(***************************************************************************)
(* priv_usch_globexpand, as one step.  fail names what fails: nothing,     *)
(* glob(3) on argument at (line 720) or the calloc of the node for         *)
(* argument at (lines 708, 715).  On failure the function returns NULL     *)
(* through `end` without storing the list in *pp_glob_list, so the nodes   *)
(* allocated so far stay allocated.  A store outside the expanded sequence *)
(* either lands in the allocator's slack or corrupts the heap.             *)
(***************************************************************************)
AfterExpand == IF entry = "ustrexpv" THEN "expv_copy" ELSE "cmd_begin"

GlobExpandOk(corrupt) ==
    /\ pc = "expand"
    /\ pp_argv' = ExpandedArgv(pp_orig_argv)
    /\ p_glob_list' = NumGlobbed(pp_orig_argv)
    /\ live_nodes' = live_nodes + NumGlobbed(pp_orig_argv)
    /\ globbed' = 0..(NumGlobbed(pp_orig_argv) - 1)
    /\ tail_copied' = TailCopies(pp_orig_argv)
    /\ oob' = OutOfBounds(pp_orig_argv)
    /\ corrupt => OutOfBounds(pp_orig_argv) # {}
    /\ pc' = IF corrupt THEN "crashed" ELSE AfterExpand
    /\ UNCHANGED <<callVars, loopVars, status, procVars, capVars, p_out,
                   memVars, ret, dirVars, waitVars>>

GlobExpandFail(kind, at) ==
    /\ pc = "expand"
    /\ at \in 0..(NumGlobbed(pp_orig_argv) - 1)
    /\ pp_argv' = <<>>
    /\ p_glob_list' = 0
    /\ live_nodes' = live_nodes + (IF kind = "glob" THEN at + 1 ELSE at)
    /\ globbed' = 0..(IF kind = "glob" THEN at ELSE at - 1)
    /\ tail_copied' = {}
    /\ oob' = {}
    /\ pc' = AfterExpand
    /\ UNCHANGED <<callVars, loopVars, status, procVars, capVars, p_out,
                   memVars, ret, dirVars, waitVars>>

(***************************************************************************)
(* priv_usch_globexpand when the calloc of line 727 returns NULL: the      *)
(* result is not checked, so the first store of lines 732-744 goes through *)
(* a NULL pointer and the process faults; with nothing to store (no match  *)
(* list and no tail) the function hands out the empty list and returns     *)
(* NULL.                                                                   *)
(***************************************************************************)
StoresToExpanded(args) == NumGlobItems(args) > 0 \/ TailSrc(args) # {}

GlobExpandNoMem ==
    /\ pc = "expand"
    /\ pp_argv' = <<>>
    /\ p_glob_list' = IF StoresToExpanded(pp_orig_argv)
                      THEN 0 ELSE NumGlobbed(pp_orig_argv)
    /\ live_nodes' = live_nodes + NumGlobbed(pp_orig_argv)
    /\ globbed' = 0..(NumGlobbed(pp_orig_argv) - 1)
    /\ tail_copied' = {}
    /\ oob' = {}
    /\ pc' = IF StoresToExpanded(pp_orig_argv) THEN "crashed" ELSE AfterExpand
    /\ UNCHANGED <<callVars, loopVars, status, procVars, capVars, p_out,
                   memVars, ret, dirVars, waitVars>>

\* chdir(2): the working directory changes when the path is a directory.
chdir(path) ==
    /\ cwd' = IF path \in Dirs THEN path ELSE cwd
    /\ chdirs' = Append(chdirs, path)

(***************************************************************************)
(* priv_usch_cmd_arr, lines 785-811: no expansion result goes to `end`;    *)
(* otherwise the separators are rewritten and either the builtin cd runs   *)
(* in the calling process or the stage loop starts.                        *)
(***************************************************************************)
CmdArrBegin ==
    /\ pc = "cmd_begin"
    /\ IF pp_argv = <<>>
       THEN /\ pc' = "cmd_end"
            /\ UNCHANGED <<pp_argv, argc, dirVars>>
       ELSE /\ pp_argv' = RewritePipes(pp_argv)
            /\ argc' = Argc(pp_argv)
            /\ IF IsCd(RewritePipes(pp_argv))
               THEN /\ chdir(CdTarget(RewritePipes(pp_argv)))
                    /\ pc' = "cmd_end"
               ELSE /\ pc' = "loop"
                    /\ UNCHANGED dirVars
    /\ UNCHANGED <<callVars, p_glob_list, live_nodes, globbed, tail_copied,
                   oob, i, input, first, last, child_pid, pipettes, status,
                   procVars, capVars, p_out, memVars, ret, waitVars>>

\* pp_out != NULL: only priv_ustrout_impl passes a capture pointer.
Capture == entry = "ustrout"

(***************************************************************************)
(* One iteration of the stage loop (lines 812-822) whose stage is empty:   *)
(* priv_usch_run returns 0 without forking (lines 1007-1011), then lines   *)
(* 824-832 advance i.                                                      *)
(***************************************************************************)
StageSkip ==
    /\ pc = "loop"
    /\ i < argc
    /\ Slot(pp_argv, i) = NULLP
    /\ last' = IsLast(pp_argv, i, argc)
    /\ input' = 0
    /\ first' = 0
    /\ i' = NextStage(pp_argv, i, argc)
    /\ UNCHANGED <<pc, callVars, expVars, argc, child_pid, pipettes, status,
                   procVars, capVars, p_out, memVars, ret, dirVars, waitVars>>

\* The child priv_usch_command forks for the stage at &pp_argv[i].
NewChild(t, l, pp) ==
    [argv |-> StageArgv(pp_argv, i),
     at |-> i,
     fds |-> ChildFds(t, input, first, l, Capture, pp),
     stdin |-> ChildFds(t, input, first, l, Capture, pp)[STDIN_FILENO],
     stdout |-> ChildFds(t, input, first, l, Capture, pp)[STDOUT_FILENO],
     ok |-> ExecOk(StageArgv(pp_argv, i)),
     st |-> "alive",
     how |-> <<"alive", 0>>,
     ws |-> 0]

(***************************************************************************)
(* One iteration of the stage loop with a stage to run: lines 814-821      *)
(* classify it, priv_usch_run calls priv_usch_command, which creates a     *)
(* pipe and forks (lines 869-870); the child wires its streams and calls   *)
(* execvp (lines 877-898).                                                 *)
(***************************************************************************)
StageFork ==
    /\ pc = "loop"
    /\ i < argc
    /\ Slot(pp_argv, i) # NULLP
    /\ last' = IsLast(pp_argv, i, argc)
    /\ pipettes' = PipeFds(fdt)
    /\ npipes' = npipes + 1
    /\ fdt' = PipeTable(fdt, npipes + 1)
    /\ procs' = Append(procs, NewChild(PipeTable(fdt, npipes + 1),
                                       IsLast(pp_argv, i, argc), PipeFds(fdt)))
    /\ cap_pipe' = IF Capture /\ IsLast(pp_argv, i, argc) = 1
                   THEN npipes + 1 ELSE cap_pipe
    /\ pc' = "forked"
    /\ UNCHANGED <<callVars, expVars, argc, i, input, first, child_pid, status,
                   pipe_data, capVars, p_out, memVars, ret, dirVars, waitVars>>

(***************************************************************************)
(* priv_usch_command in the parent, lines 900-913: close the previous read *)
(* end and the new write end; with capture on the last stage, allocate the *)
(* stash item the output is read into.                                     *)
(***************************************************************************)
\* ParentClose without the close of line 904.
ParentCloseInputOnly(t, in, pp) == IF in # 0 THEN close(t, in) ELSE t

ParentClose(t, in, pp) ==
    close(IF in # 0 THEN close(t, in) ELSE t, pp[USCH_FD_WRITE + 1])

\* Line 909: the size of the buffer calloc'ed for the capture.
InitialReadSize == 1024

\* Grow that doubles only once the index is past the size.
GrowLate(idx, size) == IF idx > size THEN 2 * size ELSE size

\* Lines 918-924: read_size after the increment of i to idx.
Grow(idx, size) == IF idx >= size THEN 2 * size ELSE size

StageParentClose ==
    /\ pc = "forked"
    /\ fdt' = ParentClose(fdt, input, pipettes)
    /\ IF Capture /\ last = 1
       THEN /\ blocks' = Append(blocks, [str |-> <<>>, vec |-> <<>>])
            /\ heap' = heap \cup {Len(blocks) + 1}
            /\ freed' = Append(freed, 0)
            /\ cap_str' = <<>>
            /\ read_size' = InitialReadSize
            /\ pc' = "drain"
       ELSE /\ pc' = "stage_end"
            /\ UNCHANGED <<blocks, heap, freed, cap_str, read_size>>
    /\ UNCHANGED <<stream, read_errors, callVars, expVars, loopVars, status, procs, npipes,
                   pipe_data, cap_pipe, p_out, stash, clears, ret, dirVars,
                   waitVars>>

\* The processes that hold the write end of pipe p open.
Writers(p) ==
    {0 : fd \in {f \in 0..MaxFd : fdt[f] = WrEnd(p)}}
    \cup {q \in 1..Len(procs) :
             procs[q].st = "alive" /\ \E fd \in 0..MaxFd : procs[q].fds[fd] = WrEnd(p)}

\* Lines 926-933: terminate the text and strip one trailing newline.
StripNewline(str) ==
    IF Len(str) > 0 /\ str[Len(str)] = "\n"
    THEN SubSeq(str, 1, Len(str) - 1)
    ELSE str

\* Lines 915-925: read(2) returned one byte.
DrainRead ==
    /\ pc = "drain"
    /\ pipe_data # <<>>
    /\ cap_str' = Append(cap_str, Head(pipe_data))
    /\ read_size' = Grow(Len(cap_str) + 1, read_size)
    /\ pipe_data' = Tail(pipe_data)
    /\ UNCHANGED <<stream, read_errors, pc, callVars, expVars, loopVars, status, fdt, procs, npipes,
                   cap_pipe, p_out, memVars, ret, dirVars, waitVars>>

\* The values the byte at index idx can have when read(2) stored nothing
\* there: zero inside the calloc'ed buffer of line 910, anything in the part
\* realloc added (line 921).
UnwrittenBytes(idx) ==
    IF idx < InitialReadSize THEN {NUL} ELSE {NUL, "x", "\n"}

\* Lines 915-925: read(2) returned -1 (EINTR, EBADF after a failed pipe,
\* EIO).  -1 is not 0, so the body runs: i is incremented over a byte that
\* was never stored, and the loop goes on.
DrainReadFail ==
    /\ pc = "drain"
    /\ read_errors < MaxReadErrors
    /\ read_errors' = read_errors + 1
    /\ \E b \in UnwrittenBytes(Len(cap_str)) : cap_str' = Append(cap_str, b)
    /\ read_size' = Grow(Len(cap_str) + 1, read_size)
    /\ UNCHANGED <<stream, pc, callVars, expVars, loopVars, status, procVars,
                   p_out, memVars, ret, dirVars, waitVars>>

\* Lines 915, 926-933: read(2) returned 0, every write end being closed.
DrainEof ==
    /\ pc = "drain"
    /\ pipe_data = <<>>
    /\ Writers(cap_pipe) = {}
    /\ blocks' = [blocks EXCEPT ![Len(blocks)].str = StripNewline(cap_str)]
    /\ pc' = "stage_end"
    /\ UNCHANGED <<callVars, expVars, loopVars, status, procVars, capVars,
                   p_out, heap, freed, stash, clears, ret, dirVars, waitVars>>

(***************************************************************************)
(* priv_usch_command, lines 937-953, and the rest of the loop body, lines  *)
(* 822-832: close the read end of a last stage, record the pid, hand out   *)
(* the capture, return the read end as the next input and advance i.       *)
(***************************************************************************)
\* TrackedPid that keeps the first pid recorded.
TrackedPidFirst(old, new) == IF old = 0 THEN new ELSE old

\* Line 943: *p_child_pid is overwritten with the pid just forked.
TrackedPid(old, new) == new

StageEnd ==
    /\ pc = "stage_end"
    /\ fdt' = IF last = 1 THEN close(fdt, pipettes[USCH_FD_READ + 1]) ELSE fdt
    /\ child_pid' = TrackedPid(child_pid, Len(procs))
    /\ p_out' = IF Capture
                THEN (IF last = 1 THEN Len(blocks) ELSE 0)
                ELSE p_out
    /\ input' = pipettes[USCH_FD_READ + 1]
    /\ first' = 0
    /\ i' = NextStage(pp_argv, i, argc)
    /\ pc' = "loop"
    /\ UNCHANGED <<callVars, expVars, argc, last, pipettes, status, procs,
                   npipes, pipe_data, cap_pipe, capVars, memVars, ret, dirVars,
                   waitVars>>

(***************************************************************************)
(* Lines 834-837 after the loop: pp_argv[i] is the terminator, so the      *)
(* trailing priv_usch_run finds no program and forks nothing.  Line 839    *)
(* then calls priv_usch_waitforall with child_pid.                         *)
(***************************************************************************)
LoopExit ==
    /\ pc = "loop"
    /\ i >= argc
    /\ join_calls' = Append(join_calls, child_pid)
    /\ pc' = "wait"
    /\ UNCHANGED <<callVars, expVars, loopVars, status, procVars, capVars,
                   p_out, memVars, ret, dirVars, waits, joined, stops>>

(***************************************************************************)
(* The children.  A child whose execvp failed prints a diagnostic and      *)
(* calls _exit(EXIT_FAILURE) (lines 893-897); a program that runs exits    *)
(* with a code of its own or is killed by a signal.  The parent observes   *)
(* a child's termination only inside read(2) and waitpid(2), so the        *)
(* children take their steps while the parent is in one of those calls.    *)
(***************************************************************************)
InCall == pc \in {"drain", "wait"}

Terminate(p, how, w, out) ==
    /\ InCall
    /\ p \in 1..Len(procs)
    /\ procs[p].st = "alive"
    /\ procs' = [procs EXCEPT ![p] = [@ EXCEPT !.st = "dead", !.how = how,
                                                !.ws = w, !.fds = NoFds]]
    /\ pipe_data' = pipe_data \o out
    /\ stream' = stream \o out
    /\ UNCHANGED <<pc, callVars, expVars, loopVars, status, fdt, npipes,
                   cap_pipe, cap_str, read_size, read_errors, p_out, memVars, ret, dirVars, waitVars>>

Captured(p) ==
    cap_pipe # 0 /\ procs[p].fds[STDOUT_FILENO] = WrEnd(cap_pipe)

\* ExecFailStatus of a child that calls abort(3) instead of _exit.
ExecFailStatusAbort == WKilled(6)

\* Lines 893-897: the wait status of a child whose execvp failed.
ExecFailStatus == WExited(EXIT_FAILURE)

\* ExecFailHow of a child that leaves the if and runs on in the parent's code.
ExecFailHowReturn == <<"return", 0>>

\* Line 896: the child whose execvp failed leaves through _exit.
ExecFailHow == <<"exit", EXIT_FAILURE>>

ChildExecFail(p) ==
    /\ p \in 1..Len(procs)
    /\ ~procs[p].ok
    /\ Terminate(p, ExecFailHow, ExecFailStatus, <<>>)

ChildExit(p, code, out) ==
    /\ p \in 1..Len(procs)
    /\ procs[p].ok
    /\ out # <<>> => Captured(p)
    /\ Terminate(p, <<"exit", code>>, WExited(code), out)

ChildKilled(p, sig) ==
    /\ p \in 1..Len(procs)
    /\ procs[p].ok
    /\ Terminate(p, <<"signal", sig>>, WKilled(sig), <<>>)

(***************************************************************************)
(* priv_usch_waitforall.  waitpid(2) with WUNTRACED | WCONTINUED reports   *)
(* the termination of the child, or that it stopped or continued; the loop *)
(* of lines 967-995 waits again unless the child exited or was killed.     *)
(***************************************************************************)
SIGSTOP == 19

Reports ==
    IF child_pid \in 1..Len(procs)
    THEN IF procs[child_pid].st = "dead"
         THEN {procs[child_pid].ws}
         ELSE IF stops < MaxStops
              THEN {WStoppedBy(SIGSTOP), WContinuedWord}
              ELSE {}
    ELSE {}

WaitPid(w) ==
    /\ pc = "wait"
    /\ w \in Reports
    /\ waits' = waits + 1
    /\ IF WaitAgain(w)
       THEN /\ stops' = stops + 1
            /\ UNCHANGED <<pc, status, joined>>
       ELSE /\ status' = ChildStatus(w)
            /\ joined' = child_pid
            /\ pc' = "cmd_end"
            /\ UNCHANGED stops
    /\ UNCHANGED <<callVars, expVars, loopVars, procVars, capVars, p_out,
                   memVars, ret, dirVars, join_calls>>

\* Lines 973-976: waitpid returned -1 (there is no such child, or the call
\* failed): perror and exit(EXIT_FAILURE) end the calling process.
WaitFail ==
    /\ pc = "wait"
    /\ waits' = waits + 1
    /\ pc' = "hostexit"
    /\ UNCHANGED <<callVars, expVars, loopVars, status, procVars, capVars,
                   p_out, memVars, ret, dirVars, joined, stops, join_calls>>

(***************************************************************************)
(* priv_usch_cmd_arr, lines 842-846: free the glob list the expansion      *)
(* handed out, free the sequence, return status.  priv_ucmd_impl returns   *)
(* it to the caller.                                                       *)
(***************************************************************************)
NodesAfterFree(live, list) == live - list

CmdArrEnd ==
    /\ pc = "cmd_end"
    /\ live_nodes' = NodesAfterFree(live_nodes, p_glob_list)
    /\ p_glob_list' = 0
    /\ IF entry = "ucmd"
       THEN /\ ret' = [kind |-> "status", val |-> status]
            /\ pc' = "returned"
       ELSE /\ pc' = "ustrout_ret"
            /\ UNCHANGED ret
    /\ UNCHANGED <<callVars, pp_argv, globbed, tail_copied, oob, loopVars,
                   status, procVars, capVars, p_out, memVars, dirVars,
                   waitVars>>

(***************************************************************************)
(* Memory of a string function.  A character buffer is a sequence of bytes *)
(* in which NUL is the zero byte; a pointer into it is a C offset, and     *)
(* NullOff is the NULL pointer calloc leaves in an unwritten slot.         *)
(***************************************************************************)
NullOff == -1

strlen(p_str) == Len(p_str)

\* The C string that starts at offset off of buffer buf.
RECURSIVE CStr(_, _)
CStr(buf, off) ==
    IF off + 1 > Len(buf) \/ buf[off + 1] = NUL THEN <<>>
    ELSE <<buf[off + 1]>> \o CStr(buf, off + 1)

\* A pointer vector read from slot 0 up to its NULL: the strings it names.
RECURSIVE VecStrings(_, _)
VecStrings(buf, vec) ==
    IF vec = <<>> \/ Head(vec) = NullOff THEN <<>>
    ELSE <<CStr(buf, Head(vec))>> \o VecStrings(buf, Tail(vec))

(***************************************************************************)
(* priv_usch_stash: head insertion; -1 when the handle or the item is NULL.*)
(***************************************************************************)
StashFails(handle, item) == ~handle \/ item = 0

Stashed(list, handle, item) ==
    IF StashFails(handle, item) THEN list ELSE <<item>> \o list

(***************************************************************************)
(* priv_ustrout_impl, lines 254-263: stash *pp_out and return its text.    *)
(* Both the success path and the `end` path return p_out->str; with p_out  *)
(* NULL that is a pointer derived from NULL, which the build either hands  *)
(* back as a garbage address or traps on.                                  *)
(***************************************************************************)
UstroutReturn(trap) ==
    /\ pc = "ustrout_ret"
    /\ stash' = Stashed(stash, p_ustash, p_out)
    /\ trap => p_out = 0
    /\ IF p_out = 0
       THEN /\ ret' = [kind |-> "invalid", val |-> 0]
            /\ pc' = IF trap THEN "crashed" ELSE "returned"
       ELSE /\ ret' = [kind |-> "block", val |-> p_out]
            /\ pc' = "returned"
    /\ UNCHANGED <<callVars, expVars, loopVars, status, procVars, capVars,
                   p_out, blocks, heap, freed, clears, dirVars, waitVars>>

(***************************************************************************)
(* ustrexpv, lines 412-452: no expansion result, or no memory for the item *)
(* (lines 423-426), returns the static empty vector; otherwise the flat    *)
(* sequence is copied into a new stash item,                               *)
(* which is stashed and returned (the static empty vector when the stash   *)
(* fails); at `end` the glob list and the flat sequence are freed.         *)
(***************************************************************************)
\* Lines 430-441: the strings laid out one after the other in the zeroed
\* data area, each followed by a NUL, and the pointers to them from pos on.
RECURSIVE StrexpData(_)
StrexpData(strs) ==
    IF strs = <<>> THEN <<>>
    ELSE Head(strs) \o <<NUL>> \o StrexpData(Tail(strs))

RECURSIVE StrexpCopy(_, _)
StrexpCopy(strs, pos) ==
    IF strs = <<>> THEN <<NullOff>>
    ELSE <<pos>> \o StrexpCopy(Tail(strs), pos + strlen(Head(strs)) + 1)

\* The stash item ustrexpv fills from the flat sequence.
StrexpItem(extmem) ==
    [str |-> StrexpData(UpToTerminator(extmem)),
     vec |-> StrexpCopy(UpToTerminator(extmem), 0)]

UstrexpvFinish(calloc_ok) ==
    /\ pc = "expv_copy"
    /\ calloc_ok \/ pp_argv # <<>>
    /\ IF pp_argv = <<>> \/ ~calloc_ok
       THEN /\ ret' = [kind |-> "emptyarr", val |-> 0]
            /\ UNCHANGED <<blocks, heap, freed, stash>>
       ELSE /\ blocks' = Append(blocks, StrexpItem(pp_argv))
            /\ heap' = heap \cup {Len(blocks) + 1}
            /\ freed' = Append(freed, 0)
            /\ stash' = Stashed(stash, p_ustash, Len(blocks) + 1)
            /\ ret' = IF StashFails(p_ustash, Len(blocks) + 1)
                      THEN [kind |-> "emptyarr", val |-> 0]
                      ELSE [kind |-> "block", val |-> Len(blocks) + 1]
    /\ live_nodes' = NodesAfterFree(live_nodes, p_glob_list)
    /\ p_glob_list' = 0
    /\ pc' = "returned"
    /\ UNCHANGED <<callVars, pp_argv, globbed, tail_copied, oob, loopVars,
                   status, procVars, capVars, p_out, clears, dirVars, waitVars>>

(***************************************************************************)
(* The stash on its own: a library call that allocates an item and         *)
(* stashes it (ustrjoinv, lines 574-597: when the stash fails the item is  *)
(* neither stashed nor freed), and uclear.                                 *)
(***************************************************************************)
StashNew(handle) ==
    /\ pc = "idle"
    /\ Len(blocks) < MaxBlocks
    /\ blocks' = Append(blocks, [str |-> <<>>, vec |-> <<>>])
    /\ heap' = heap \cup {Len(blocks) + 1}
    /\ freed' = Append(freed, 0)
    /\ stash' = Stashed(stash, handle, Len(blocks) + 1)
    /\ clears' = 0
    /\ UNCHANGED <<pc, callVars, expVars, loopVars, status, procVars, capVars,
                   p_out, ret, dirVars, waitVars>>

\* The items free(3) is called on by the loop of lines 310-315.
Released(list) == {list[x] : x \in 1..Len(list)}

\* TimesReleased for a loop that frees p_prev and p_current both.
TimesReleasedTwice(list, b) == 2 * Cardinality({x \in 1..Len(list) : list[x] = b})

\* How often the loop of lines 310-315 passes item b to free(3).
TimesReleased(list, b) == Cardinality({x \in 1..Len(list) : list[x] = b})

\* ListAfterClear without the reset of line 316.
ListAfterClearKept(list) == list

\* p_ustash->p_list when uclear returns (lines 303-316).
ListAfterClear(list) == <<>>

\* clears counts the consecutive calls on the caller's stash.
uclear(handle) ==
    /\ pc = "idle"
    /\ clears < MaxClears
    /\ clears' = IF handle THEN clears + 1 ELSE clears
    /\ IF ~handle \/ stash = <<>>
       THEN UNCHANGED <<stash, heap, freed>>
       ELSE /\ heap' = heap \ Released(stash)
            /\ freed' = [b \in 1..Len(freed) |-> freed[b] + TimesReleased(stash, b)]
            /\ stash' = ListAfterClear(stash)
    /\ UNCHANGED <<pc, callVars, expVars, loopVars, status, procVars, capVars,
                   p_out, blocks, ret, dirVars, waitVars>>

(***************************************************************************)
(* ustrsplit.                                                              *)
(***************************************************************************)
\* Lines 334-346: num_str, one more than the pairs (i, j) that match.
NumStr(in, delims) ==
    1 + Cardinality({ij \in (1..strlen(in)) \X (1..strlen(delims)) :
                        in[ij[1]] = delims[ij[2]]})

\* SlotAfter for a slot that points at the overwritten delimiter.
SlotAt(at) == at

\* Line 371: the slot stored for the delimiter at C index at.
SlotAfter(at) == at + 1

\* SplitStart without the store of line 360.
SplitStartNoFirst(in, delims) ==
    [p_out |-> in \o <<NUL>>,
     pp_out |-> [x \in 1..(NumStr(in, delims) + 1) |-> NullOff],
     out_pos |-> 0]

\* Lines 356-360: the copy of the input with its NUL, slot 0 at its start,
\* the other num_str slots zeroed.
SplitStart(in, delims) ==
    [p_out |-> in \o <<NUL>>,
     pp_out |-> [x \in 1..(NumStr(in, delims) + 1) |-> IF x = 1 THEN 0 ELSE NullOff],
     out_pos |-> 1]

\* Lines 362-373: the loops over i and j from (at, j) on.
RECURSIVE SplitLoop(_, _, _, _)
SplitLoop(st, delims, at, j) ==
    IF at >= Len(st.p_out) - 1 THEN st
    ELSE IF j >= strlen(delims) THEN SplitLoop(st, delims, at + 1, 0)
    ELSE IF st.p_out[at + 1] = delims[j + 1]
    THEN SplitLoop([p_out |-> [st.p_out EXCEPT ![at + 1] = NUL],
                    pp_out |-> [st.pp_out EXCEPT ![st.out_pos + 1] = SlotAfter(at)],
                    out_pos |-> st.out_pos + 1],
                   delims, at, j + 1)
    ELSE SplitLoop(st, delims, at, j + 1)

\* The stash item ustrsplit fills: the text and the pointer table.
SplitItem(in, delims) ==
    LET st == SplitLoop(SplitStart(in, delims), delims, 0, 0)
    IN [str |-> st.p_out, vec |-> st.pp_out]

\* Line 331: a parameter is absent.
SplitParamError == ~p_ustash \/ p_in = NULLP \/ p_delims = NULLP

(***************************************************************************)
(* ustrsplit as one step.  On a parameter error and when calloc fails      *)
(* (lines 331-332, 352-354) control reaches `end` with pp_out still NULL,  *)
(* and NULL is returned; otherwise the item is stashed and its pointer     *)
(* table returned.                                                         *)
(***************************************************************************)
ustrsplit(calloc_ok) ==
    /\ pc = "idle"
    /\ entry = "ustrsplit"
    /\ IF SplitParamError \/ ~calloc_ok
       THEN /\ ret' = [kind |-> "null", val |-> 0]
            /\ UNCHANGED <<blocks, heap, freed, stash>>
       ELSE /\ blocks' = Append(blocks, SplitItem(p_in, p_delims))
            /\ heap' = heap \cup {Len(blocks) + 1}
            /\ freed' = Append(freed, 0)
            /\ stash' = Stashed(stash, p_ustash, Len(blocks) + 1)
            /\ ret' = [kind |-> "block", val |-> Len(blocks) + 1]
    /\ pc' = "returned"
    /\ UNCHANGED <<callVars, expVars, loopVars, status, procVars, capVars,
                   p_out, clears, dirVars, waitVars>>

\* The strings and delimiter sets ustrsplit is called with.
Chars == {"a", ",", ";"}
Strings == UNION {[1..n -> Chars] : n \in 0..MaxLen}
DelimSets == {<<>>, <<",">>, <<",", ";">>, <<",", ",">>}

InitSplit ==
    /\ InitCore
    /\ entry = "ustrsplit"
    /\ p_ustash \in BOOLEAN
    /\ p_in \in Strings \cup {NULLP}
    /\ p_delims \in DelimSets \cup {NULLP}
    /\ NoNeqArgs /\ NoWhereisArgs

NextSplit == \E calloc_ok \in BOOLEAN : ustrsplit(calloc_ok)

SpecSplit == InitSplit /\ [][NextSplit]_vars

(***************************************************************************)
(* priv_usch_cached_whereis.  The file system holds the program /b/a and   *)
(* the file ./a; stat(2) succeeds on exactly these paths.                  *)
(***************************************************************************)
SLASH == "/"
DOT == "."
Files == {<<SLASH, "b", SLASH, "a">>, <<DOT, SLASH, "a">>}

stat(path) == path \in Files

\* Line 620: p_item_copy, strlen(p_search_item) zeroed bytes; nothing is
\* copied into it before the scan of lines 627-633.
ItemCopy(item) == [x \in 1..strlen(item) |-> NUL]

\* Lines 626-633: the C index of the last '/' in the copy, -1 without one.
BasenameIndex(copy) ==
    IF \E x \in 1..Len(copy) : copy[x] = SLASH
    THEN (CHOOSE x \in 1..Len(copy) :
             copy[x] = SLASH /\ \A y \in (x + 1)..Len(copy) : copy[y] # SLASH) - 1
    ELSE -1

\* Lines 660-663: the directory, a '/', the item and a NUL, as a C string.
NewPath(dir, item) == CStr(dir \o <<SLASH>> \o item \o <<NUL>>, 0)

\* Lines 654-682: the loop over the directories from C index x on.
RECURSIVE WhereisScan(_, _, _, _, _)
WhereisScan(pp_path, p_item, x, seen, malloc_ok) ==
    IF x >= Len(pp_path)
    THEN [status |-> 0, dest |-> NULLP, probed |-> seen]
    ELSE IF ~stat(NewPath(pp_path[x + 1], p_item))
    THEN WhereisScan(pp_path, p_item, x + 1,
                     Append(seen, NewPath(pp_path[x + 1], p_item)), malloc_ok)
    ELSE [status |-> IF malloc_ok THEN 1 ELSE -1,
          dest |-> IF malloc_ok THEN NewPath(pp_path[x + 1], p_item) ELSE NULLP,
          probed |-> Append(seen, NewPath(pp_path[x + 1], p_item))]

\* Lines 611-652: the directories to probe and the item to look for.  A
\* name that starts with '/' or '.' is split at the last '/' of its copy.
Whereis(cached, item, fails) ==
    IF FirstByte(item) \in {SLASH, DOT}
    THEN IF fails \in {"relarray", "copy"} \/ BasenameIndex(ItemCopy(item)) < 0
         THEN [status |-> -1, dest |-> NULLP, probed |-> <<>>]
         ELSE LET copy == ItemCopy(item)
                  idx == BasenameIndex(copy)
              IN WhereisScan(<<CStr([copy EXCEPT ![idx + 1] = NUL], 0)>>,
                             SubSeq(copy, idx + 2, Len(copy)), 0, <<>>,
                             fails # "dest")
    ELSE WhereisScan(cached, item, 0, <<>>, fails # "dest")

priv_usch_cached_whereis ==
    /\ pc = "idle"
    /\ entry = "whereis"
    /\ ret' = [kind |-> "status",
               val |-> Whereis(pp_cached_path, p_search_item, no_mem).status,
               dest |-> Whereis(pp_cached_path, p_search_item, no_mem).dest]
    /\ probed' = Whereis(pp_cached_path, p_search_item, no_mem).probed
    /\ pc' = "returned"
    /\ UNCHANGED <<entry, p_ustash, pp_orig_argv, p_in, p_delims, p_a, p_b, len,
                   p_search_item, pp_cached_path, no_mem, expVars, loopVars, status,
                   procVars, capVars, p_out, memVars, dirVars, waitVars>>

\* The names looked for and the cached directory lists.
SearchItems ==
    {<<"a">>, <<"n">>, <<SLASH, "b", SLASH, "a">>, <<SLASH, "b", SLASH, "n">>,
     <<DOT, SLASH, "a">>, <<DOT, "a">>, <<"b", SLASH, "a">>, <<SLASH, "a">>}

CachedDirs == {<<SLASH, "b">>, <<SLASH, "c">>, <<DOT>>, <<>>}

CachedPaths == UNION {[1..n -> CachedDirs] : n \in 0..MaxPathItems}

InitWhereis ==
    /\ InitCore
    /\ entry = "whereis"
    /\ p_ustash = TRUE
    /\ p_search_item \in SearchItems
    /\ pp_cached_path \in CachedPaths
    /\ no_mem \in {"none", "relarray", "copy", "dest"}
    /\ NoSplitArgs /\ NoNeqArgs

NextWhereis == priv_usch_cached_whereis

SpecWhereis == InitWhereis /\ [][NextWhereis]_vars

(***************************************************************************)
(* ustrneq.                                                                *)
(***************************************************************************)
USCH_FALSE == 0
USCH_TRUE == 1

\* Lines 1123-1143: no NULL, len not 0, both strings at least len long, and
\* no differing byte among the first len.
ustrneq(a, b, n) ==
    IF a = NULLP \/ b = NULLP \/ n = 0 THEN USCH_FALSE
    ELSE IF strlen(a) < n \/ strlen(b) < n THEN USCH_FALSE
    ELSE IF \E x \in 0..(n - 1) : a[x + 1] # b[x + 1] THEN USCH_FALSE
    ELSE USCH_TRUE

ustrneqCall ==
    /\ pc = "idle"
    /\ entry = "ustrneq"
    /\ ret' = [kind |-> "bool", val |-> ustrneq(p_a, p_b, len)]
    /\ pc' = "returned"
    /\ UNCHANGED <<callVars, expVars, loopVars, status, procVars, capVars,
                   p_out, memVars, dirVars, waitVars>>

\* The strings and lengths ustrneq is called with.
NeqStrings == UNION {[1..n -> {"a", "b"}] : n \in 0..MaxLen}

InitNeq ==
    /\ InitCore
    /\ entry = "ustrneq"
    /\ p_ustash = TRUE
    /\ p_a \in NeqStrings \cup {NULLP}
    /\ p_b \in NeqStrings \cup {NULLP}
    /\ len \in 0..(MaxLen + 1)
    /\ NoSplitArgs /\ NoWhereisArgs

NextNeq == ustrneqCall

SpecNeq == InitNeq /\ [][NextNeq]_vars

(***************************************************************************)
(* Specifications.                                                         *)
(***************************************************************************)
Entries == {"ucmd", "ustrout", "ustrexpv"}

Next ==
    \/ /\ pc = "idle"
       /\ \E e \in Entries, args \in ArgLists, handle \in BOOLEAN :
             /\ e = "ucmd" => handle
             /\ Call(e, args, handle)
    \/ \E corrupt \in BOOLEAN : GlobExpandOk(corrupt)
    \/ /\ pc = "expand"
       /\ \E kind \in {"glob", "calloc"}, at \in 0..(Len(pp_orig_argv) - 1) :
             GlobExpandFail(kind, at)
    \/ GlobExpandNoMem
    \/ CmdArrBegin
    \/ StageSkip
    \/ StageFork
    \/ StageParentClose
    \/ DrainRead
    \/ DrainReadFail
    \/ DrainEof
    \/ StageEnd
    \/ LoopExit
    \/ \E p \in 1..Len(procs) : ChildExecFail(p)
    \/ /\ InCall
       /\ \E p \in 1..Len(procs), code \in ExitArgs, out \in Outputs :
             ChildExit(p, code, out)
    \/ \E p \in 1..Len(procs), sig \in Signals : ChildKilled(p, sig)
    \/ \E w \in Reports : WaitPid(w)
    \/ WaitFail
    \/ CmdArrEnd
    \/ \E trap \in BOOLEAN : UstroutReturn(trap)
    \/ \E calloc_ok \in BOOLEAN : UstrexpvFinish(calloc_ok)

Spec == Init /\ [][Next]_vars

NextStash ==
    \/ \E handle \in BOOLEAN : StashNew(handle)
    \/ \E handle \in BOOLEAN : uclear(handle)

SpecStash == Init /\ [][NextStash]_vars

(***************************************************************************)
(* The drain loop of a capture on its own: ustrout of the single stage     *)
(* "a" has forked the child and closed the write end (lines 869-913), and  *)
(* the parent enters the read loop of line 915.  The child writes a stream *)
(* whose length lies around the sizes at which the buffer doubles.         *)
(***************************************************************************)
MaxDoublings == 2

\* Two to the power n.
RECURSIVE Pow2(_)
Pow2(n) == IF n = 0 THEN 1 ELSE 2 * Pow2(n - 1)

\* The lengths next to the k-th doubling of the buffer, and the short ones.
StreamLens ==
    {0, 1, 2} \cup {InitialReadSize * Pow2(k - 1) + d :
                       k \in 1..MaxDoublings, d \in {-1, 0, 1}}

\* A stream of n bytes ending in t newlines.
StreamOf(n, t) == [k \in 1..n |-> IF k > n - t THEN "\n" ELSE "x"]

DrainStreams == {StreamOf(n, t) : n \in StreamLens, t \in 0..2}

DrainPipe == PipeFds(InitFds)

InitDrain ==
    /\ pc = "drain"
    /\ entry = "ustrout"
    /\ p_ustash = TRUE
    /\ NoSplitArgs /\ NoNeqArgs /\ NoWhereisArgs
    /\ pp_orig_argv = <<<<"a">>>>
    /\ pp_argv = <<<<"a">>, NULLP>>
    /\ p_glob_list = 1
    /\ live_nodes = 1
    /\ globbed = {0}
    /\ tail_copied = {}
    /\ oob = {}
    /\ argc = 1 /\ i = 0 /\ input = 0 /\ first = 1 /\ last = 1
    /\ child_pid = 0 /\ status = 0
    /\ pipettes = DrainPipe
    /\ fdt = ParentClose(PipeTable(InitFds, 1), 0, DrainPipe)
    /\ procs = <<[argv |-> <<<<"a">>>>,
                  at |-> 0,
                  fds |-> ChildFds(PipeTable(InitFds, 1), 0, 1, 1, TRUE, DrainPipe),
                  stdin |-> Tty(STDIN_FILENO),
                  stdout |-> WrEnd(1),
                  ok |-> TRUE,
                  st |-> "alive",
                  how |-> <<"alive", 0>>,
                  ws |-> 0]>>
    /\ npipes = 1
    /\ pipe_data = <<>>
    /\ cap_pipe = 1
    /\ cap_str = <<>>
    /\ read_size = InitialReadSize
    /\ stream = <<>>
    /\ read_errors = 0
    /\ p_out = 0
    /\ blocks = <<[str |-> <<>>, vec |-> <<>>]>>
    /\ heap = {1}
    /\ freed = <<0>>
    /\ stash = <<>>
    /\ ret = NoRet
    /\ cwd = <<"/">>
    /\ chdirs = <<>>
    /\ waits = 0 /\ joined = 0 /\ stops = 0
    /\ join_calls = <<>>
    /\ clears = 0
    /\ probed = <<>>

NextDrain ==
    \/ \E out \in DrainStreams : ChildExit(1, 0, out)
    \/ DrainRead
    \/ DrainEof

SpecDrain == InitDrain /\ [][NextDrain]_vars

(***************************************************************************)
(* Properties.                                                             *)
(***************************************************************************)
\* The expanded sequence has been rewritten and the stage loop was entered.
InPipeline ==
    pc \in {"loop", "forked", "drain", "stage_end", "wait", "cmd_end",
            "ustrout_ret", "returned", "hostexit"}

\* n >= 1 non-empty stages separated by single separators: no leading,
\* trailing or doubled terminator in slots 0..argc-1.
WellFormed ==
    /\ argc >= 1
    /\ Slot(pp_argv, 0) # NULLP
    /\ Slot(pp_argv, argc - 1) # NULLP
    /\ \A j \in 0..(argc - 2) :
          ~(Slot(pp_argv, j) = NULLP /\ Slot(pp_argv, j + 1) = NULLP)

\* Child q runs the last stage of the sequence.
LastStage(q) == \A j \in procs[q].at..(argc - 1) : Slot(pp_argv, j) # NULLP

\* C1: in a pipeline of two or more stages run with capture, the last stage
\* reads its standard input from the read end of the pipe the preceding
\* stage writes, and writes its standard output to the capture pipe.
C1_CaptureLastStageWiring ==
    (Capture /\ InPipeline /\ WellFormed) =>
        \A q \in 2..Len(procs) :
            LastStage(q) =>
                /\ procs[q - 1].stdout = WrEnd(q - 1)
                /\ procs[q].stdin = RdEnd(q - 1)
                /\ procs[q].stdout = WrEnd(q)

\* C2: in a pipeline of n >= 1 non-empty stages separated by single
\* separators and run without capture, stage 1 keeps the caller's standard
\* input, stage q+1 reads the read end of exactly the pipe stage q writes,
\* and the last stage keeps the caller's standard output.
C2_StageWiring ==
    (entry = "ucmd" /\ InPipeline /\ WellFormed) =>
        \A q \in 1..Len(procs) :
            /\ q = 1 => procs[q].stdin = Tty(STDIN_FILENO)
            /\ q > 1 => \E k \in 1..npipes :
                            /\ procs[q - 1].stdout = WrEnd(k)
                            /\ procs[q].stdin = RdEnd(k)
            /\ LastStage(q) => procs[q].stdout = Tty(STDOUT_FILENO)
            /\ ~LastStage(q) => \E k \in 1..npipes : procs[q].stdout = WrEnd(k)

C2_Witness ==
    /\ pc = "returned"
    /\ entry = "ucmd"
    /\ WellFormed
    /\ Len(procs) = 3
    /\ procs[1].stdin = Tty(STDIN_FILENO)
    /\ procs[2].stdin = RdEnd(1)
    /\ procs[2].stdout = WrEnd(2)
    /\ procs[3].stdin = RdEnd(2)
    /\ procs[3].stdout = Tty(STDOUT_FILENO)

C5_CdBuiltin ==
    (/\ pc \in {"cmd_end", "ustrout_ret", "returned"}
     /\ entry \in {"ucmd", "ustrout"}
     /\ pp_argv # <<>>
     /\ Slot(pp_argv, 0) = CD) =>
        LET target == IF Slot(pp_argv, 1) = NULLP THEN HOME ELSE Slot(pp_argv, 1)
        IN /\ chdirs = <<target>>
           /\ target \in Dirs => cwd = target
           /\ procs = <<>>
           /\ npipes = 0
           /\ waits = 0
           /\ fdt = InitFds

C5_Witness ==
    /\ pc = "returned"
    /\ entry = "ucmd"
    /\ pp_orig_argv = <<CD, D, PIPE, A>>
    /\ chdirs = <<DSLASH>>
    /\ cwd = DSLASH
    /\ procs = <<>>

\* The match lists of the arguments before the first "--", concatenated in
\* argument order.
RECURSIVE MatchesBefore(_)
MatchesBefore(args) ==
    IF args = <<>> \/ Head(args) = DD THEN <<>>
    ELSE glob(Head(args)) \o MatchesBefore(Tail(args))

\* The arguments after the first "--".
RECURSIVE PassthroughTail(_)
PassthroughTail(args) ==
    IF args = <<>> THEN <<>>
    ELSE IF Head(args) = DD THEN Tail(args)
    ELSE PassthroughTail(Tail(args))

\* C6: the sequence returned by expansion, read from slot 0 up to its first
\* terminator, is the match lists of the arguments before the first "--"
\* followed immediately by every argument after it, and no slot outside the
\* allocated sequence is written.
C6_FlatSequence ==
    (pc \in {"cmd_begin", "expv_copy", "crashed"} /\ pp_argv # <<>>) =>
        /\ UpToTerminator(pp_argv) =
              MatchesBefore(pp_orig_argv) \o PassthroughTail(pp_orig_argv)
        /\ oob = {}

\* The C index of the first "--", the number of arguments when there is none.
RECURSIVE SeparatorIndex(_)
SeparatorIndex(args) ==
    IF args = <<>> \/ Head(args) = DD THEN 0
    ELSE 1 + SeparatorIndex(Tail(args))

\* C7: the matcher is invoked only on arguments that precede the first
\* "--"; every argument after it is never matched and is copied unaltered.
C7_TailNeverMatched ==
    /\ \A c \in globbed : c < SeparatorIndex(pp_orig_argv)
    /\ \A t \in tail_copied :
          /\ t.src > SeparatorIndex(pp_orig_argv)
          /\ t.val = pp_orig_argv[t.src + 1]
    /\ (pc \in {"cmd_begin", "expv_copy"} /\ pp_argv # <<>>) =>
          {t.src : t \in tail_copied} =
              (SeparatorIndex(pp_orig_argv) + 1)..(Len(pp_orig_argv) - 1)

C7_Witness ==
    /\ pc = "cmd_begin"
    /\ pp_orig_argv = <<A, STAR, PIPE, A, DD, STAR>>
    /\ globbed = 0..3
    /\ tail_copied # {}
    /\ \E t \in tail_copied : t.val = STAR

\* C8: every transient glob-list node created during an expansion is
\* released before the entry point that triggered the expansion returns.
C8_GlobListReleased == pc = "returned" => live_nodes = 0

\* C9: the pointer ustrout returns is the static empty string or the text
\* of a block that is in the caller's stash when the call returns.
C9_UstroutPointer ==
    (pc = "returned" /\ entry = "ustrout") =>
        \/ ret.kind = "emptystr"
        \/ ret.kind = "block" /\ ret.val \in Released(stash)

\* C10: a call to uclear leaves the stash empty, and a uclear that follows
\* a uclear (also on a never-used stash) releases nothing more.
C10_UclearIdempotent ==
    [][clears' = clears + 1 =>
          /\ stash' = <<>>
          /\ (clears >= 1 \/ stash = <<>>) => (freed' = freed /\ heap' = heap)]_vars

C10_Witness ==
    /\ clears = 2
    /\ stash = <<>>
    /\ \E b \in 1..Len(freed) : freed[b] = 1

\* C11: after N distinct blocks were pushed into a stash, one uclear passes
\* each of them to free(3) exactly once: none of them stays allocated, none
\* was freed before, and no other block is freed.
C11_ClearReleasesEachOnce ==
    [][clears' = clears + 1 =>
          /\ Cardinality(Released(stash)) = Len(stash)
          /\ \A b \in 1..Len(freed) :
                IF b \in Released(stash)
                THEN freed[b] = 0 /\ freed'[b] = 1 /\ b \notin heap'
                ELSE freed'[b] = freed[b]]_vars

C11_Witness ==
    /\ clears = 1
    /\ stash = <<>>
    /\ Cardinality({b \in 1..Len(freed) : freed[b] = 1}) = 3
    /\ \A b \in 1..Len(freed) : freed[b] = 1 => b \notin heap

\* The slots joined with the byte d between consecutive slots.
RECURSIVE JoinWith(_, _)
JoinWith(slots, d) ==
    IF slots = <<>> THEN <<>>
    ELSE IF Len(slots) = 1 THEN slots[1]
    ELSE slots[1] \o <<d>> \o JoinWith(Tail(slots), d)

\* The delimiter set holds one character (possibly repeated).
SingleDelim(delims) ==
    /\ delims # NULLP
    /\ delims # <<>>
    /\ \A j \in 1..Len(delims) : delims[j] = delims[1]

\* No two adjacent bytes of the string are delimiters.
NoAdjacentDelims(in, delims) ==
    \A x \in 1..(Len(in) - 1) : ~(in[x] = delims[1] /\ in[x + 1] = delims[1])

\* The vector ustrsplit returned, as the caller reads it.
SplitResult == VecStrings(blocks[ret.val].str, blocks[ret.val].vec)

\* C12: for a string without two adjacent delimiter characters and a
\* single-character delimiter set, joining the slots ustrsplit returns with
\* the delimiter character between consecutive slots gives the string back.
C12_SplitJoinRoundTrip ==
    (/\ pc = "returned"
     /\ entry = "ustrsplit"
     /\ ret.kind = "block"
     /\ SingleDelim(p_delims)
     /\ NoAdjacentDelims(p_in, p_delims)) =>
        JoinWith(SplitResult, p_delims[1]) = p_in

C12_Witness ==
    /\ pc = "returned"
    /\ entry = "ustrsplit"
    /\ ret.kind = "block"
    /\ p_in = <<",", "a", ",">>
    /\ p_delims = <<",">>
    /\ SplitResult = << <<>>, <<"a">>, <<>> >>

\* C13: on every error (absent stash, absent input, absent delimiter set,
\* allocation failure) ustrsplit returns a one-element terminated vector,
\* never NULL, and leaves the stash unchanged.
C13_SplitErrorSentinel ==
    (pc = "returned" /\ entry = "ustrsplit") =>
        /\ ret.kind \in {"block", "emptyvec"}
        /\ SplitParamError => (ret.kind = "emptyvec" /\ stash = <<>>)

\* The vector ustrexpv returned in a stash item, as the caller reads it.
StrexpResult == VecStrings(blocks[ret.val].str, blocks[ret.val].vec)

\* C14: ustrexpv always returns, and what it returns is never NULL: it is
\* the static empty vector or a terminator-ended vector in a stash item,
\* and the empty vector when the matcher fails or the stash is absent.
C14_UstrexpvReturnsVector ==
    entry = "ustrexpv" =>
        /\ pc # "crashed"
        /\ pc = "returned" =>
              /\ ret.kind \in {"emptyarr", "block"}
              /\ ret.kind = "block" =>
                    blocks[ret.val].vec[Len(blocks[ret.val].vec)] = NullOff
              /\ (pp_argv = <<>> \/ ~p_ustash) => ret.kind = "emptyarr"

\* The pattern names no entry of the directory (which holds a and d).
MatchesNothing(pattern) == pattern \notin {STAR, A, D, DSLASH}

\* C15: expanding a single pattern that matches no entry is not an error:
\* the matcher returns the pattern itself, and unless memory or the stash
\* is missing ustrexpv returns a vector whose only element is the pattern,
\* character for character.
C15_NoMatchReturnsPattern ==
    (/\ entry = "ustrexpv"
     /\ Len(pp_orig_argv) = 1
     /\ MatchesNothing(pp_orig_argv[1])) =>
        /\ (pc \in {"expv_copy", "returned"} /\ pp_argv # <<>>) =>
              UpToTerminator(pp_argv) = <<pp_orig_argv[1]>>
        /\ (pc = "returned" /\ ret.kind = "block") =>
              StrexpResult = <<pp_orig_argv[1]>>
        /\ (pc = "returned" /\ ret.kind # "block") =>
              (pp_argv = <<>> \/ ~p_ustash \/ blocks = <<>>)

C15_Witness ==
    /\ pc = "returned"
    /\ entry = "ustrexpv"
    /\ pp_orig_argv = <<CD>>
    /\ ret.kind = "block"
    /\ StrexpResult = <<CD>>
    /\ blocks[ret.val].str = <<"c", "d", NUL>>

\* The name contains a path separator or starts with ".".
HasOwnDirectory(item) ==
    \/ FirstByte(item) = DOT
    \/ \E x \in 1..Len(item) : item[x] = SLASH

\* C16: resolving a name that contains a path separator or starts with "."
\* probes no path built from the supplied directory list, and when the
\* named entry exists it is reported as found with its path.
C16_OwnDirectoryProbe ==
    (pc = "returned" /\ entry = "whereis" /\ HasOwnDirectory(p_search_item)) =>
        /\ \A x \in 1..Len(probed) :
              \A y \in 1..Len(pp_cached_path) :
                  probed[x] # NewPath(pp_cached_path[y], p_search_item)
        /\ (stat(p_search_item) /\ no_mem = "none") =>
              (ret.val = 1 /\ ret.dest \in Files)

\* The first n characters of a string, the whole string when it is shorter.
Take(str, n) == SubSeq(str, 1, IF Len(str) < n THEN Len(str) ELSE n)

\* C17: ustrneq(a, b, len) is 1 exactly when neither pointer is NULL, len
\* is not 0 and a and b are equal when compared over at most len
\* characters; it is 0 otherwise.
C17_StrneqSemantics ==
    (pc = "returned" /\ entry = "ustrneq") =>
        ret.val = IF /\ p_a # NULLP
                     /\ p_b # NULLP
                     /\ len # 0
                     /\ Take(p_a, len) = Take(p_b, len)
                  THEN 1 ELSE 0

\* The maximal runs of non-terminator slots of a sequence, left to right.
RECURSIVE Runs(_, _)
Runs(v, cur) ==
    IF v = <<>> THEN (IF cur = <<>> THEN <<>> ELSE <<cur>>)
    ELSE IF Head(v) = NULLP
    THEN (IF cur = <<>> THEN <<>> ELSE <<cur>>) \o Runs(Tail(v), <<>>)
    ELSE Runs(Tail(v), Append(cur, Head(v)))

\* The runs of slots 0..argc-1 of the rewritten sequence.
StageRuns == Runs(SubSeq(pp_argv, 1, argc), <<>>)

\* The join step has been called.
AfterJoinCall == pc \in {"wait", "cmd_end", "ustrout_ret", "returned", "hostexit"}

C19_JoinLoop ==
    [][/\ (pc = "wait" /\ pc' # "wait") =>
             \/ /\ pc' = "hostexit"
                /\ status' = status /\ ret' = ret /\ joined' = joined
             \/ /\ pc' = "cmd_end"
                /\ procs[child_pid].st = "dead"
                /\ procs[child_pid].how[1] \in {"exit", "signal"}
                /\ joined' = child_pid
       /\ stops' = stops + 1 =>
             (pc = "wait" /\ pc' = "wait" /\ status' = status /\ joined' = joined)
       /\ pc = "hostexit" => pc' = "hostexit"]_vars

C19_Witness ==
    /\ pc = "returned"
    /\ stops = 1
    /\ waits = 2
    /\ joined = child_pid
    /\ procs[joined].how = <<"signal", 9>>

\* C20: when the first token of the expanded sequence is not cd, exactly
\* the slots whose first byte is '|' have become terminators, one process
\* is forked per maximal run of the other slots, in order and with that run
\* as its argument vector; no separator is in any argument vector and an
\* empty run forks nothing.
C20_OneForkPerRun ==
    (/\ entry \in {"ucmd", "ustrout"}
     /\ InPipeline
     /\ pp_argv # <<>>
     /\ ~IsCd(pp_argv)) =>
        LET expanded == ExpandedArgv(pp_orig_argv)
        IN /\ \A x \in 1..Len(UpToTerminator(expanded)) :
                 /\ pp_argv[x] = NULLP <=> expanded[x][1] = "|"
                 /\ pp_argv[x] # NULLP => pp_argv[x] = expanded[x]
           /\ Len(procs) <= Len(StageRuns)
           /\ \A q \in 1..Len(procs) :
                 /\ procs[q].argv = StageRuns[q]
                 /\ \A x \in 1..Len(procs[q].argv) : procs[q].argv[x][1] # "|"
                 /\ q > 1 => procs[q - 1].at < procs[q].at
           /\ AfterJoinCall => Len(procs) = Len(StageRuns)

C20_Witness ==
    /\ pc = "returned"
    /\ pp_orig_argv = <<A, STAR, PIPE, PIPE, N>>
    /\ Len(procs) = 2
    /\ procs[1].argv = <<A, A, DSLASH>>
    /\ procs[2].argv = <<N>>

\* The processes that hold an end of a pipe: 0 is the calling process.
Holders(end) ==
    {0 : fd \in {f \in 0..MaxFd : fdt[f] = end}}
    \cup {q \in 1..Len(procs) : \E fd \in 0..MaxFd : procs[q].fds[fd] = end}

\* Stage q follows stage q-1 after a single separator.
Adjacent(q) == procs[q].at = procs[q - 1].at + Len(procs[q - 1].argv) + 1

OneNewlineLess(text, s) ==
    \/ s = text \o <<"\n">>
    \/ s = text /\ (s = <<>> \/ s[Len(s)] # "\n")

C22_CaptureStripsOneNewline ==
    /\ pc = "drain" => Len(cap_str) < read_size
    /\ pc = "stage_end" =>
          /\ OneNewlineLess(blocks[Len(blocks)].str, stream)
          /\ Len(stream) < read_size

C22_Witness ==
    /\ pc = "stage_end"
    /\ Len(stream) = InitialReadSize
    /\ stream[Len(stream)] = "\n"
    /\ stream[Len(stream) - 1] = "\n"
    /\ read_size = 2 * InitialReadSize
    /\ Len(blocks[Len(blocks)].str) = InitialReadSize - 1

(***************************************************************************)
(* C23.  A child whose program cannot be executed ends itself with a       *)
(* non-zero exit status and takes no step of the parent: the step in which *)
(* it ends changes nothing but the child itself (no descriptor of the      *)
(* parent, no buffer, no further fork, no join, no return value), and no   *)
(* child ever returns to the caller, so that only the parent does.         *)
(***************************************************************************)
ExecFailed(q) == q \in 1..Len(procs) /\ ~procs[q].ok /\ procs[q].st = "dead"

C23_ExecFailureStaysInChild ==
    /\ [](\A q \in 1..Len(procs) :
            /\ procs[q].how[1] # "return"
            /\ ExecFailed(q) =>
                  /\ procs[q].how = <<"exit", EXIT_FAILURE>>
                  /\ WIFEXITED(procs[q].ws)
                  /\ WEXITSTATUS(procs[q].ws) # 0)
    /\ [][\A q \in 1..Len(procs) :
            (~procs[q].ok /\ q <= Len(procs') /\ procs'[q] # procs[q]) =>
                /\ procs'[q].st = "dead"
                /\ Len(procs') = Len(procs)
                /\ \A r \in 1..Len(procs) : r # q => procs'[r] = procs[r]
                /\ UNCHANGED <<pc, fdt, npipes, pipe_data, capVars, blocks,
                               child_pid, waits, joined, join_calls, status,
                               ret>>]_vars

C23_Witness ==
    /\ pc = "returned"
    /\ entry \in {"ucmd", "ustrout"}
    /\ Len(procs) = 2
    /\ ExecFailed(1)
    /\ procs[2].ok
    /\ waits > 0

(***************************************************************************)
(* C24.  A successful ustrsplit returns one slot more than the string has  *)
(* delimiter characters, and a terminator after them: the empty string     *)
(* gives one empty slot, and the second of two adjacent delimiter          *)
(* characters starts an empty slot (runs are not collapsed).               *)
(***************************************************************************)
\* The positions of the string that hold a character of the delimiter set.
DelimAt(in, delims) ==
    {x \in 1..Len(in) : \E j \in 1..Len(delims) : in[x] = delims[j]}

C24_SplitSlotCount ==
    (pc = "returned" /\ entry = "ustrsplit" /\ ret.kind = "block") =>
        LET vec == blocks[ret.val].vec
            at == DelimAt(p_in, p_delims)
            n == Cardinality(at) + 1
        IN /\ Len(vec) > n
           /\ \A x \in 1..n : vec[x] # NullOff
           /\ vec[n + 1] = NullOff
           /\ Len(SplitResult) = n
           /\ p_in = <<>> => SplitResult = << <<>> >>
           /\ \A x \in at :
                 (x + 1) \in at =>
                     SplitResult[Cardinality({y \in at : y <= x}) + 1] = <<>>

C24_Witness ==
    /\ pc = "returned"
    /\ entry = "ustrsplit"
    /\ ret.kind = "block"
    /\ p_in = <<"a", ",", ";">>
    /\ p_delims = <<",", ";">>
    /\ SplitResult = << <<"a">>, <<>>, <<>> >>
    /\ blocks[ret.val].vec[4] = NullOff

(***************************************************************************)
(* C25.  The join is only called with the pid of a child this execution    *)
(* forked: an execution whose sequence holds no stage forks nothing, does  *)
(* not call waitpid and does not end the calling process.                  *)
(***************************************************************************)
C25_JoinOnlyForked ==
    (InPipeline /\ entry \in {"ucmd", "ustrout"}) =>
        /\ \A k \in 1..Len(join_calls) : join_calls[k] \in 1..Len(procs)
        /\ procs = <<>> => (waits = 0 /\ pc # "hostexit")

(***************************************************************************)
(* C26.  When a pipeline execution returns, the parent holds no end of a   *)
(* pipe it created, whatever separators the sequence has, and the read end *)
(* of the pipe of every stage that was not the last one is the standard    *)
(* input of a stage forked later.                                          *)
(***************************************************************************)
C26_NoPipeEndLeftOpen ==
    (pc = "returned" /\ entry \in {"ucmd", "ustrout"}) =>
        /\ \A fd \in 0..MaxFd : fdt[fd].k \notin {"r", "w"}
        /\ \A q \in 1..Len(procs) :
              IsLast(pp_argv, procs[q].at, argc) = 0 =>
                  \E r \in (q + 1)..Len(procs) : procs[r].stdin = RdEnd(q)

(***************************************************************************)
(* C27.  The drain loop ends on every outcome of read(2) other than a byte *)
(* read: a step in which read reports an error leaves the loop, as one in  *)
(* which it reports the end of the stream does.                            *)
(***************************************************************************)
C27_DrainStopsOnReadError ==
    [][(pc = "drain" /\ read_errors' = read_errors + 1) => pc' # "drain"]_vars

====
